---- MODULE Spec2Model ----
(***************************************************************************)
(* The fork/join task protocol of libfork: the promise of a task           *)
(* (fork, call, join and final suspend), run by a pool of work-stealing    *)
(* workers over a segmented (cactus) stack.                                *)
(*                                                                         *)
(* A step of a worker is one handler of the promise up to, and including,  *)
(* its next access to memory that another worker may access (the parent's  *)
(* join counter, a deque).  The swap of the active stack pointer that      *)
(* follows a child's decrement of the join counter is a step of its own.   *)
(***************************************************************************)
EXTENDS Integers, Sequences, FiniteSets, TLC

\* ------------------------------------------------------------------ bounds

NumWorkers == 2     \* workers of a multi-threaded pool
MaxN == 3           \* sync_wait(sch, f, n) is run for every n in 0..MaxN
WordBits == 16      \* width of the join counter (32 in the program)
MaxPush == 2        \* entries pushed to the deque, or published to the pool, alone
MaxLen == 4         \* the vectors of 0, 1 and 2 that are scanned have up to MaxLen elements

\* --------------------------------------------------------------- constants

k_u32_max == 2^WordBits - 1

NoFrame == 0        \* a null frame pointer
NoWorker == -1      \* a null context pointer
RootId == 1         \* the frame sync_wait creates
NoSeg == -1         \* the null stack top of a root frame
Undef == -1         \* a result slot not yet written
Unlucky == 7        \* the argument at which the throwing fib raises
ScanMaxN == 15      \* the test scans the vectors of 1 .. 15 ones

VARIABLES
  scn,         \* the scan of the test alone: [pc, input, v]
  wsq,          \* a work-stealing deque alone: [top, bottom, buf, pushed, taken,
               \* owner, thief]
  lazy,          \* the sleep/wake protocol alone: [queue, published, sleeping, wake, pc, pusher]
  nthreads,    \* the threads of the scheduler sync_wait is given
  prog,        \* the async function sync_wait is given
  arg,         \* the argument sync_wait passes to the root task
  frame,       \* frame id -> control block and locals of the coroutine
  deque,       \* worker -> its deque of stolen-able continuations (bottom last)
  inbox,       \* worker -> frames submitted to it
  asp,         \* worker -> active stack pointer (a segment)
  free,        \* worker -> the empty segments it keeps
  nseg,        \* segments allocated so far
  wk,          \* worker -> [pc, self, parent, is_root, top]
  sem,         \* releases of the root's semaphore
  result,      \* the root's return address
  terminated,  \* std::terminate was called
  njoin        \* history, frame id -> [begin, end, by]: the joins the frame
               \* has evaluated, those it has completed, and the way of the last;
               \* forker: the worker that forked the frame

pool_vars == <<nthreads, prog, arg, frame, deque, inbox, asp, free, nseg, wk, sem,
               result, terminated, njoin>>

vars == <<scn, wsq, lazy, nthreads, prog, arg, frame, deque, inbox, asp, free, nseg, wk, sem, result, terminated, njoin>>

\* The workers (contexts) of the scheduler, and those of the largest pool.
Workers == 0 .. (nthreads - 1)
AllWorkers == 0 .. NumWorkers

\* Context::max_threads() == 1: the context of a unit_pool.
single_thread_context == nthreads = 1

\* ------------------------------------------------------------ frame blocks

\* A frame's control block as the allocator and the promise construct it.
new_frame(tg, n, p, tp) ==
  [tag |-> tg, n |-> n, parent |-> p, top |-> tp,
   steals |-> 0, joins |-> k_u32_max, debug_count |-> 0,
   pos |-> "start", a |-> Undef, a2 |-> Undef, b |-> Undef, alive |-> TRUE,
   exception |-> FALSE, exception_ptr |-> FALSE, escaped |-> FALSE,
   dest |-> NoWorker]

\* frame_block::reset()
reset(fr) == [fr EXCEPT !.steals = 0, !.joins = k_u32_max]

\* An atomic subtraction on the join counter, in the counter's width.
sub_joins(j, x) == (j - x) % (k_u32_max + 1)

\* frame_block::is_root(): a root frame is not on a stack.
is_root(fr) == fr.top = NoSeg

\* The id of the child a frame forks at pos (slot a, then slot a2) or calls
\* (slot b).
fork_child(f, pos) == IF pos = "start" THEN 3 * f - 1 ELSE 3 * f
call_child(f) == 3 * f + 1

\* ------------------------------------------------------------ stacks (tls)

\* tls::push_asp: the worker's (empty) segment goes to its free list and tp
\* becomes the active one.
push_asp_free(w, tp) == [free EXCEPT ![w] = @ \cup {asp[w]}]
push_asp_asp(w, tp) == [asp EXCEPT ![w] = tp]

\* context->stack_pop(): an empty segment, from the free list or newly made.
stack_pop_seg(w) == IF free[w] = {} THEN nseg
                    ELSE CHOOSE s \in free[w] : \A t \in free[w] : s <= t

\* ------------------------------------------------------------ worker state

no_joins == [begin |-> 0, end |-> 0, by |-> "none", forker |-> NoWorker]

idle_worker == [pc |-> "idle", self |-> NoFrame, parent |-> NoFrame,
                is_root |-> FALSE, top |-> NoSeg]

running(f, at) == [pc |-> at, self |-> f, parent |-> NoFrame,
                   is_root |-> FALSE, top |-> NoSeg]

\* hop: a root task that first awaits the context of a worker,
\* co_await dest, and then goes on as fib.
start_pos == IF prog = "hop" THEN "switch" ELSE "start"

\* -------------------------------------------------- the deque, on its own

\* The thieves of the deque: the other workers of the largest pool.
Thieves == 1 .. NumWorkers

\* The entries pushed are 1, 2, ...; entry x is pushed to slot x - 1.
Entries == 1 .. MaxPush

empty_deque ==
  [top |-> 0, bottom |-> 0, buf |-> [i \in 0 .. (MaxPush - 1) |-> 0],
   pushed |-> 0, taken |-> [x \in Entries |-> 0],
   owner |-> [pc |-> "idle", b |-> 0, t |-> 0],
   thief |-> [th \in Thieves |-> [pc |-> "idle", t |-> 0, x |-> 0]]]

\* ---------------------------------------------- sleep and wake, on its own

\* The workers of a lazy pool.
Sleepers == 1 .. NumWorkers

all_awake ==
  [queue |-> 0, published |-> 0, sleeping |-> {}, wake |-> {},
   pc |-> [w \in Sleepers |-> "scan"], pusher |-> "idle"]

\* The state sync_wait leaves: the root frame, on the heap, submitted to a
\* worker of the pool (the workers are alike: it is worker 0).
submitted ==
  /\ frame = (RootId :> [new_frame("root", arg, NoFrame, NoSeg) EXCEPT !.pos = start_pos])
  /\ deque = [w \in Workers |-> << >>]
  /\ inbox = [w \in Workers |-> IF w = 0 THEN <<RootId>> ELSE << >>]
  /\ asp = [w \in Workers |-> w]
  /\ free = [w \in Workers |-> {}]
  /\ nseg = nthreads
  /\ wk = [w \in Workers |-> idle_worker]
  /\ sem = 0
  /\ result = Undef
  /\ terminated = FALSE
  /\ njoin = (RootId :> no_joins)
  /\ wsq = empty_deque
  /\ lazy = all_awake

\* No scan is running.
no_scan == [pc |-> "idle", input |-> << >>, v |-> << >>]

Init ==
  /\ nthreads = NumWorkers
  /\ prog \in {"fib", "fan"}
  /\ arg \in 0 .. MaxN
  /\ submitted
  /\ scn = no_scan

\* ------------------------------------------------------------ code's tests

\* join_awaitable::await_ready: the number of children that have reported.
num_joined(j) == k_u32_max - j

\* Mutant: the test is passed as soon as no more children than steals have
\* reported.
join_is_ready_at_most(st, j) == st >= num_joined(j)

\* join_awaitable::await_ready: every stolen-from child has reported.
join_is_ready(st, j) == st = num_joined(j)

\* Mutant: the parent subtracts one more.
join_rebase_one_more(st) == k_u32_max - st + 1

\* Mutant: the parent subtracts U32_MAX whatever steals is.
join_rebase_no_steals(st) == k_u32_max

\* join_awaitable::await_suspend: the amount the parent subtracts from joins.
join_rebase(st) == k_u32_max - st

\* Mutant: the parent always takes itself for the winner of the race.
wins_join_race_always(st, joined) == TRUE

\* Mutant: the parent never takes itself for the winner of the race.
wins_join_race_never(st, joined) == FALSE

\* join_awaitable::await_suspend: the parent wins the race (joined is the
\* value of joins before the subtraction).
wins_join_race(st, joined) == st = k_u32_max - joined

\* Mutant: the child also takes the counter before its re-basing for 1.
is_last_child_unrebased(prev) == prev = 1 \/ prev = k_u32_max

\* Mutant: every child that finds its parent stolen takes itself for the last.
is_last_child_always(prev) == TRUE

\* Mutant: the child tests the value after its decrement against 1.
is_last_child_after(prev) == prev - 1 = 1

\* final_await_suspend: this child is the last to report.
is_last_child(prev) == prev = 1

\* Mutant: the last child always pushes the parent's top.
must_take_stack_always(isroot, tp, a) == TRUE

\* Mutant: the last child never takes the parent's stack.
must_take_stack_never(isroot, tp, a) == FALSE

\* final_await_suspend, last child: the parent's stack must be taken.
must_take_stack(isroot, tp, a) == ~isroot /\ tp # a

\* Mutant: the child always swaps its stack.
must_release_stack_always(isroot, tp, a) == TRUE

\* Mutant: the child keeps the parent's stack.
must_release_stack_never(isroot, tp, a) == FALSE

\* final_await_suspend, not last: the worker holds the parent's stack.
must_release_stack(isroot, tp, a) == ~isroot /\ tp = a

\* join_awaitable::await_resume: the frame has been reset and, for a task
\* on a stack, the worker runs on the frame's stack.
join_resume_asserts(fr, a) ==
  /\ fr.steals = 0
  /\ fr.joins = k_u32_max
  /\ (fr.tag # "root" => fr.top = a)

\* Mutant: final_suspend asserts nothing.
final_suspend_asserts_nothing(fr) == TRUE

\* promise_type::final_suspend: no fork is left without its join.
final_suspend_asserts(fr) ==
  /\ fr.debug_count = 0
  /\ fr.steals = 0
  /\ fr.joins = k_u32_max

\* -------------------------------------------------------- the task bodies

\* fib of the benchmark: if (n < 2) co_return n; fork(a, fib)(n - 1);
\* call(b, fib)(n - 2); join; co_return a + b.
returns_leaf(fr) == fr.n < 2
leaf_value(fr) == fr.n
fork_arg(fr) == fr.n - 1
call_arg(fr) == fr.n - 2
sum_value_a_twice(fr) == fr.a + fr.a   \* mutant: co_return a + a
sum_value(fr) == fr.a + fr.b

\* The values a read of a result slot can give: those of an int read before
\* it was written are indeterminate.
Indeterminate == {0, 1}
slot_values(x) == IF x = Undef THEN Indeterminate ELSE {x}

\* The frame's locals as the reads of co_return a + b find them (a2 is a
\* local of fan only).
read_slots(fr) ==
  {[fr EXCEPT !.a = x, !.a2 = y, !.b = z] :
     x \in slot_values(fr.a),
     y \in IF prog = "fan" THEN slot_values(fr.a2) ELSE {fr.a2},
     z \in slot_values(fr.b)}

\* The fibs of the exception tests: fib keeps the failure of its guarded
\* region in a local and rethrows it after the join, fib_integ stashes it.
ExcProgs == {"fib_exc", "fib_integ"}

\* if (n == 7) throw std::runtime_error{"7 is unlucky"};
is_unlucky(fr) == prog \in ExcProgs /\ fr.n = Unlucky

\* fan: a task that forks twice before its join: if (n < 2) co_return n;
\* fork(a, fan)(n - 1); fork(a2, fan)(0); call(b, fan)(1); join;
\* co_return a + a2 + b.
fan_fork2_arg(fr) == 0
fan_call_arg(fr) == 1
fan_sum_value(fr) == fr.a + fr.a2 + fr.b

\* The position of a body after its fork at pos.
after_fork(pos) == IF prog = "fan" /\ pos = "start" THEN "fork2" ELSE "call"

\* promise_result::return_value: the value goes to the return address, the
\* slot of the parent that fork (a) or call (b) named, or sync_wait's.
return_value_frame(f, v) ==
  LET fr == frame[f] IN
  IF fr.tag = "root" THEN frame
  ELSE IF f = call_child(fr.parent) THEN [frame EXCEPT ![fr.parent].b = v]
  ELSE IF f = fork_child(fr.parent, "start") THEN [frame EXCEPT ![fr.parent].a = v]
  ELSE [frame EXCEPT ![fr.parent].a2 = v]

return_value_result(f, v) == IF frame[f].tag = "root" THEN v ELSE result

\* ----------------------------------------------------------- worker loop

\* A worker takes a frame submitted to it and resumes it.
resume_submitted(w) ==
  /\ ~terminated
  /\ w \in Workers
  /\ wk[w].pc = "idle"
  /\ inbox[w] # << >>
  /\ inbox' = [inbox EXCEPT ![w] = Tail(@)]
  /\ wk' = [wk EXCEPT ![w] = running(Head(inbox[w]), "body")]
  /\ UNCHANGED <<scn, wsq, lazy, nthreads, prog, arg, frame, deque, asp, free, nseg, sem, result, terminated, njoin>>

\* Mutant: the thief does not count its steal.
resume_stolen_uncounted(fr) == fr

\* The thief, now the owner of the frame, counts its steal before it
\* resumes the continuation.
resume_stolen(fr) == [fr EXCEPT !.steals = @ + 1]

\* A worker with nothing to do steals the top of another worker's deque and
\* resumes it, counting the steal in the stolen frame (resume_stolen).
steal(w, v) ==
  /\ ~terminated
  /\ w \in Workers /\ v \in Workers
  /\ wk[w].pc = "idle"
  /\ inbox[w] = << >>
  /\ v # w
  /\ deque[v] # << >>
  /\ LET f == Head(deque[v]) IN
     /\ deque' = [deque EXCEPT ![v] = Tail(@)]
     /\ frame' = [frame EXCEPT ![f] = resume_stolen(@)]
     /\ wk' = [wk EXCEPT ![w] = running(f, "body")]
  /\ UNCHANGED <<scn, wsq, lazy, nthreads, prog, arg, inbox, asp, free, nseg, sem, result, terminated, njoin>>

\* --------------------------------------------------------- context switch

\* tls::get_ctx<Context>() on worker w, which current_context() returns.
get_ctx(w) == w

\* Mutant: the awaitable is never ready.
switch_is_ready_never(w, d) == FALSE

\* Mutant: the awaitable is always ready.
switch_is_ready_always(w, d) == TRUE

\* switch_awaitable::await_ready: the task is already on dest.
switch_is_ready(w, d) == get_ctx(w) = d

\* dest->submit(&self): the continuation goes to dest's inbox.
submit(ib, d, f) == [ib EXCEPT ![d] = Append(@, f)]

\* co_await dest: await_transform(Context *dest) makes the switch_awaitable;
\* when it is not ready, await_suspend submits the task to dest and the
\* worker returns to its loop.
switch_await(w) ==
  /\ ~terminated
  /\ w \in Workers
  /\ wk[w].pc = "body"
  /\ LET f == wk[w].self IN
     /\ frame[f].pos = "switch"
     /\ \E d \in Workers :
          /\ frame' = [frame EXCEPT ![f].pos = "start", ![f].dest = d]
          /\ IF switch_is_ready(w, d)
             THEN UNCHANGED <<inbox, wk>>
             ELSE /\ inbox' = submit(inbox, d, f)
                  /\ wk' = [wk EXCEPT ![w] = idle_worker]
  /\ UNCHANGED <<scn, wsq, lazy, nthreads, prog, arg, deque, asp, free, nseg, sem, result, terminated, njoin>>

\* ------------------------------------------------------------ fork, call

\* Mutant: the fork packet keeps its tag on a single-threaded context.
rewrite_tag_keeps(tg) == tg

\* rewrite_tag: the first argument's tag becomes tag::call.
rewrite_tag(tg) == "call"

\* The await_transform overload a fork packet selects: on a single-threaded
\* context the one that rewrites the tag and gives a call_awaitable.
fork_tag == IF single_thread_context THEN rewrite_tag("fork") ELSE "fork"

\* Mutant: the fork pushes the parent at the top of the deque.
task_push_top(q, f) == <<f>> \o q

\* Mutant: the fork does not push the parent.
task_push_nothing(q, f) == q

\* fork_awaitable::await_suspend: context->task_push(m_parent).
task_push(q, f) == Append(q, f)

\* co_await fork(a, fib)(n - 1): await_transform makes the child's frame on
\* the worker's stack, fork_awaitable::await_suspend pushes the parent and
\* returns the child; a fork rewritten to a call only returns the child.
fork_await_suspend(w) ==
  /\ ~terminated
  /\ w \in Workers
  /\ wk[w].pc = "body"
  /\ LET f == wk[w].self
         fr == frame[f]
         c == fork_child(f, fr.pos)
         n == IF fr.pos = "start" THEN fork_arg(fr) ELSE fan_fork2_arg(fr) IN
     /\ \/ fr.pos = "start" /\ ~is_unlucky(fr) /\ ~returns_leaf(fr)
        \/ fr.pos = "fork2"
     /\ IF fork_tag = "fork"
        THEN /\ frame' = (c :> new_frame("fork", n, f, asp[w]))
                         @@ [frame EXCEPT ![f].debug_count = @ + 1,
                                          ![f].pos = after_fork(fr.pos)]
             /\ deque' = [deque EXCEPT ![w] = task_push(@, f)]
        ELSE /\ frame' = (c :> new_frame(fork_tag, n, f, asp[w]))
                         @@ [frame EXCEPT ![f].pos = after_fork(fr.pos)]
             /\ UNCHANGED deque
     /\ njoin' = (c :> [no_joins EXCEPT !.forker = w]) @@ njoin
     /\ wk' = [wk EXCEPT ![w] = running(c, "body")]
  /\ UNCHANGED <<scn, wsq, lazy, nthreads, prog, arg, inbox, asp, free, nseg, sem, result, terminated>>

\* The same fork, statement by statement. A worker inside await_suspend holds
\* the awaiting parent f and, once read, the child's handle c in a local of
\* its own stack.
forking(f, c, at) == [pc |-> at, self |-> f, parent |-> NoFrame,
                      is_root |-> FALSE, top |-> NoSeg, child |-> c]

\* The fork awaitable is a temporary of the parent's co_await expression: it
\* lives until the parent is resumed, that is, until a thief takes the parent
\* from the deque q it was pushed to.
awaitable_alive(q, f) == \E i \in DOMAIN q : q[i] = f

\* m_child->coro(), read through the awaitable: the child's handle c while
\* the awaitable lives, any value once it is gone.
coro(alive, c) == IF alive THEN {c} ELSE DOMAIN frame

\* Mutant: the handle is read through the awaitable after the push.
child_handle_reread(saved, q, f) == coro(awaitable_alive(q, f), saved)

\* fork_awaitable::await_suspend: return child, the local read before the
\* push; neither *this nor the parent is read.
child_handle(saved, q, f) == {saved}

\* m_parent->debug_inc(); child = m_child->coro(): the awaitable is alive,
\* the parent is suspended and not yet published.
fork_read(w) ==
  /\ ~terminated
  /\ w \in Workers
  /\ wk[w].pc = "body"
  /\ fork_tag = "fork"
  /\ LET f == wk[w].self
         fr == frame[f]
         c == fork_child(f, fr.pos)
         n == IF fr.pos = "start" THEN fork_arg(fr) ELSE fan_fork2_arg(fr) IN
     /\ \/ fr.pos = "start" /\ ~is_unlucky(fr) /\ ~returns_leaf(fr)
        \/ fr.pos = "fork2"
     /\ frame' = (c :> new_frame("fork", n, f, asp[w]))
                 @@ [frame EXCEPT ![f].debug_count = @ + 1,
                                  ![f].pos = after_fork(fr.pos)]
     /\ njoin' = (c :> [no_joins EXCEPT !.forker = w]) @@ njoin
     /\ \E h \in coro(TRUE, c) : wk' = [wk EXCEPT ![w] = forking(f, h, "fork_read")]
  /\ UNCHANGED <<scn, wsq, lazy, nthreads, prog, arg, deque, inbox, asp, free, nseg, sem, result, terminated>>

\* tls::get_ctx()->task_push(m_parent): from here on a thief may take the
\* parent.
fork_push(w) ==
  /\ ~terminated
  /\ w \in Workers
  /\ wk[w].pc = "fork_read"
  /\ deque' = [deque EXCEPT ![w] = task_push(@, wk[w].self)]
  /\ wk' = [wk EXCEPT ![w].pc = "fork_pushed"]
  /\ UNCHANGED <<scn, wsq, lazy, nthreads, prog, arg, frame, inbox, asp, free, nseg, sem, result, terminated, njoin>>

\* return child: the worker resumes the handle it holds.
fork_return(w) ==
  /\ ~terminated
  /\ w \in Workers
  /\ wk[w].pc = "fork_pushed"
  /\ \E h \in child_handle(wk[w].child, deque[w], wk[w].self) :
       wk' = [wk EXCEPT ![w] = running(h, "body")]
  /\ UNCHANGED <<scn, wsq, lazy, nthreads, prog, arg, frame, deque, inbox, asp, free, nseg, sem, result, terminated, njoin>>

\* co_await call(b, fib)(n - 2): call_awaitable::await_suspend returns the
\* child; nothing is pushed.
call_await_suspend(w) ==
  /\ ~terminated
  /\ w \in Workers
  /\ wk[w].pc = "body"
  /\ LET f == wk[w].self
         c == call_child(f) IN
     /\ frame[f].pos = "call"
     /\ frame' = (c :> new_frame("call", IF prog = "fan" THEN fan_call_arg(frame[f])
                                             ELSE call_arg(frame[f]), f, asp[w]))
                 @@ [frame EXCEPT ![f].pos = "join"]
     /\ njoin' = (c :> no_joins) @@ njoin
     /\ wk' = [wk EXCEPT ![w] = running(c, "body")]
  /\ UNCHANGED <<scn, wsq, lazy, nthreads, prog, arg, deque, inbox, asp, free, nseg, sem, result, terminated>>

\* co_return n (n < 2) and co_return a + b: the value is written to the
\* return address and the task goes to its final suspend.
co_return(w) ==
  /\ ~terminated
  /\ w \in Workers
  /\ wk[w].pc = "body"
  /\ LET f == wk[w].self
         fr == frame[f] IN
     /\ \/ fr.pos = "start" /\ ~is_unlucky(fr) /\ returns_leaf(fr)
        \/ fr.pos = "sum" /\ ~fr.exception_ptr
     /\ \E rd \in IF fr.pos = "start" THEN {fr} ELSE read_slots(fr) :
          LET v == IF fr.pos = "start" THEN leaf_value(fr)
                   ELSE IF prog = "fan" THEN fan_sum_value(rd) ELSE sum_value(rd) IN
          /\ frame' = return_value_frame(f, v)
          /\ result' = return_value_result(f, v)
     /\ wk' = [wk EXCEPT ![w].pc = "final_suspend"]
  /\ UNCHANGED <<scn, wsq, lazy, nthreads, prog, arg, deque, inbox, asp, free, nseg, sem, terminated, njoin>>

\* nojoin: fib without its join: fork(a, f)(n - 1); call(b, f)(n - 2);
\* co_return a + b.  After the call the body is at its co_return.
no_join(w) ==
  /\ ~terminated
  /\ w \in Workers
  /\ prog = "nojoin"
  /\ wk[w].pc = "body"
  /\ frame[wk[w].self].pos = "join"
  /\ frame' = [frame EXCEPT ![wk[w].self].pos = "sum"]
  /\ UNCHANGED <<scn, wsq, lazy, nthreads, prog, arg, deque, inbox, asp, free, nseg, wk, sem, result, terminated, njoin>>

\* ------------------------------------------------------------- exceptions

\* first_arg_t::stash_exception: m_frame->capture_exception().
stash_exception(fr) == [fr EXCEPT !.exception = TRUE]

\* LF_CATCH_ALL of the fibs' guarded region (the fork and the call): the
\* evaluation of the fork or of the call raises before its child is made;
\* fib keeps the failure in __exception_ptr, fib_integ stashes it in its
\* frame, and both go on to their join.
catch_all(w) ==
  /\ ~terminated
  /\ w \in Workers
  /\ prog \in ExcProgs
  /\ wk[w].pc = "body"
  /\ LET f == wk[w].self
         fr == frame[f] IN
     /\ \/ fr.pos = "start" /\ ~is_unlucky(fr) /\ ~returns_leaf(fr)
        \/ fr.pos = "call"
     /\ frame' = [frame EXCEPT ![f] =
                   IF prog = "fib_integ"
                   THEN [stash_exception(fr) EXCEPT !.pos = "join"]
                   ELSE [fr EXCEPT !.exception_ptr = TRUE, !.pos = "join"]]
  /\ UNCHANGED <<scn, wsq, lazy, nthreads, prog, arg, deque, inbox, asp, free, nseg, wk, sem, result, terminated, njoin>>

\* promise_type::unhandled_exception: a failure leaves the body (the throw
\* at n == 7, or fib's rethrow_exception after its join) and the handler
\* rethrows it in a noexcept call: std::terminate.
unhandled_exception(w) ==
  /\ ~terminated
  /\ w \in Workers
  /\ wk[w].pc = "body"
  /\ LET f == wk[w].self
         fr == frame[f] IN
     /\ \/ fr.pos = "start" /\ is_unlucky(fr)
        \/ fr.pos = "sum" /\ fr.exception_ptr
     /\ frame' = [frame EXCEPT ![f].escaped = TRUE]
  /\ terminated' = TRUE
  /\ UNCHANGED <<scn, wsq, lazy, nthreads, prog, arg, deque, inbox, asp, free, nseg, wk, sem, result, njoin>>

\* ------------------------------------------------------------------- join

\* Mutant: the control block is not reset.
take_stack_no_reset(fr) == fr

\* join_awaitable::take_stack_reset_control, for the frame f on worker w:
\* the frame's stack becomes the worker's and the control block is reset.
take_stack_reset_control(fr) == reset(fr)

take_stack_asp(w, f) ==
  IF frame[f].tag # "root" THEN push_asp_asp(w, frame[f].top) ELSE asp

take_stack_free(w, f) ==
  IF frame[f].tag # "root" THEN push_asp_free(w, frame[f].top) ELSE free

\* Mutant: the fast path is never taken.
no_steals_never(steals) == FALSE

\* join_awaitable::await_ready: if (self->steals() == 0)
no_steals(steals) == steals = 0

\* join_awaitable::await_ready
join_await_ready(w) ==
  /\ ~terminated
  /\ w \in Workers
  /\ wk[w].pc = "body"
  /\ LET f == wk[w].self
         fr == frame[f] IN
     /\ fr.pos = "join"
     /\ IF no_steals(fr.steals)
        THEN /\ wk' = [wk EXCEPT ![w].pc = "await_resume"]
             /\ njoin' = [njoin EXCEPT ![f].begin = @ + 1, ![f].by = "fast"]
             /\ UNCHANGED <<frame, asp, free>>
        ELSE IF join_is_ready(fr.steals, fr.joins)
        THEN /\ asp' = take_stack_asp(w, f)
             /\ free' = take_stack_free(w, f)
             /\ frame' = [frame EXCEPT ![f] = take_stack_reset_control(@)]
             /\ wk' = [wk EXCEPT ![w].pc = "await_resume"]
             /\ njoin' = [njoin EXCEPT ![f].begin = @ + 1, ![f].by = "ready"]
        ELSE /\ wk' = [wk EXCEPT ![w].pc = "await_suspend"]
             /\ njoin' = [njoin EXCEPT ![f].begin = @ + 1, ![f].by = "none"]
             /\ UNCHANGED <<frame, asp, free>>
  /\ UNCHANGED <<scn, wsq, lazy, nthreads, prog, arg, deque, inbox, nseg, sem, result, terminated>>

\* join_awaitable::await_suspend: the fetch_sub that re-bases joins, and what
\* follows it.
join_await_suspend(w) ==
  /\ ~terminated
  /\ w \in Workers
  /\ wk[w].pc = "await_suspend"
  /\ LET f == wk[w].self
         fr == frame[f]
         joined == fr.joins
         after == [fr EXCEPT !.joins = sub_joins(joined, join_rebase(fr.steals))] IN
     IF wins_join_race(fr.steals, joined)
     THEN /\ asp' = take_stack_asp(w, f)
          /\ free' = take_stack_free(w, f)
          /\ frame' = [frame EXCEPT ![f] = take_stack_reset_control(after)]
          /\ wk' = [wk EXCEPT ![w].pc = "await_resume"]
          /\ njoin' = [njoin EXCEPT ![f].by = "won"]
     ELSE /\ frame' = [frame EXCEPT ![f] = after]
          /\ wk' = [wk EXCEPT ![w] = idle_worker]
          /\ njoin' = [njoin EXCEPT ![f].by = "lost"]
          /\ UNCHANGED <<asp, free>>
  /\ UNCHANGED <<scn, wsq, lazy, nthreads, prog, arg, deque, inbox, nseg, sem, result, terminated>>

\* Mutant: await_resume without its debug_reset().
await_resume_frame_no_debug_reset(fr) == [fr EXCEPT !.pos = "sum"]

\* join_awaitable::await_resume: debug_reset(), and the body goes on after
\* the join.
await_resume_frame(fr) == [fr EXCEPT !.debug_count = 0, !.pos = "sum"]

join_await_resume(w) ==
  /\ ~terminated
  /\ w \in Workers
  /\ wk[w].pc = "await_resume"
  /\ LET f == wk[w].self IN
     IF join_resume_asserts(frame[f], asp[w])
     THEN /\ frame' = [frame EXCEPT ![f] = await_resume_frame(@)]
          /\ njoin' = [njoin EXCEPT ![f].end = @ + 1]
          /\ wk' = [wk EXCEPT ![w].pc = "body"]
          /\ UNCHANGED terminated
     ELSE /\ terminated' = TRUE
          /\ UNCHANGED <<frame, njoin, wk>>
  /\ UNCHANGED <<scn, wsq, lazy, nthreads, prog, arg, deque, inbox, asp, free, nseg, sem, result>>

\* ---------------------------------------------------------- final suspend

\* Mutant: every task takes the root's branch.
final_is_root_always(fr) == TRUE

\* final_awaitable::await_suspend: the branches on the task's tag.
final_is_root(fr) == fr.tag = "root"

\* Mutant: a called task goes on to final_await_suspend.
final_is_call_never(fr) == FALSE

final_is_call(fr) == fr.tag = "call"

\* Mutant: the frame is not destroyed.
destroy_nothing(fr) == fr

\* destroy(child): child.destroy(); its parent pointer is read first.
destroy(fr) == [fr EXCEPT !.alive = FALSE]

\* promise_type::final_suspend and final_awaitable::await_suspend up to the
\* pop of the worker's deque: the root releases its semaphore, every task
\* destroys its frame, a called task resumes its parent.
final_suspend(w) ==
  /\ ~terminated
  /\ w \in Workers
  /\ wk[w].pc = "final_suspend"
  /\ LET f == wk[w].self
         fr == frame[f] IN
     IF ~final_suspend_asserts(fr)
     THEN /\ terminated' = TRUE
          /\ UNCHANGED <<frame, wk, sem>>
     ELSE /\ UNCHANGED terminated
          /\ frame' = [frame EXCEPT ![f] = destroy(@)]
          /\ IF final_is_root(fr)
             THEN /\ sem' = sem + 1
                  /\ wk' = [wk EXCEPT ![w] = idle_worker]
             ELSE IF final_is_call(fr)
             THEN /\ wk' = [wk EXCEPT ![w] = running(fr.parent, "body")]
                  /\ UNCHANGED sem
             ELSE /\ wk' = [wk EXCEPT ![w] = [idle_worker EXCEPT !.pc = "task_pop",
                                                              !.parent = fr.parent]]
                  /\ UNCHANGED sem
  /\ UNCHANGED <<scn, wsq, lazy, nthreads, prog, arg, deque, inbox, asp, free, nseg, result, njoin>>

\* final_await_suspend: context->task_pop(); a parent that was not stolen is
\* resumed, otherwise the parent's locale is copied.
task_pop(w) ==
  /\ ~terminated
  /\ w \in Workers
  /\ wk[w].pc = "task_pop"
  /\ LET p == wk[w].parent IN
     IF deque[w] # << >>
     THEN /\ deque' = [deque EXCEPT ![w] = SubSeq(@, 1, Len(@) - 1)]
          /\ IF deque[w][Len(deque[w])] = p
             THEN /\ wk' = [wk EXCEPT ![w] = running(p, "body")]
                  /\ UNCHANGED terminated
             ELSE /\ terminated' = TRUE
                  /\ UNCHANGED wk
     ELSE /\ wk' = [wk EXCEPT ![w].pc = "fetch_sub",
                              ![w].is_root = is_root(frame[p]),
                              ![w].top = frame[p].top]
          /\ UNCHANGED <<deque, terminated>>
  /\ UNCHANGED <<scn, wsq, lazy, nthreads, prog, arg, frame, inbox, asp, free, nseg, sem, result, njoin>>

\* final_await_suspend: parent->fetch_sub_joins(1); the last child takes the
\* parent's stack, resets the parent and resumes it.
fetch_sub(w) ==
  /\ ~terminated
  /\ w \in Workers
  /\ wk[w].pc = "fetch_sub"
  /\ LET p == wk[w].parent
         prev == frame[p].joins IN
     IF is_last_child(prev)
     THEN /\ IF must_take_stack(wk[w].is_root, wk[w].top, asp[w])
             THEN /\ asp' = push_asp_asp(w, wk[w].top)
                  /\ free' = push_asp_free(w, wk[w].top)
             ELSE UNCHANGED <<asp, free>>
          /\ frame' = [frame EXCEPT ![p] = reset(@)]
          /\ wk' = [wk EXCEPT ![w] = running(p, "await_resume")]
          /\ njoin' = [njoin EXCEPT ![p].by = "child"]
     ELSE /\ frame' = [frame EXCEPT ![p].joins = sub_joins(prev, 1)]
          /\ UNCHANGED njoin
          /\ wk' = [wk EXCEPT ![w] =
                      IF must_release_stack(wk[w].is_root, wk[w].top, asp[w])
                      THEN [@ EXCEPT !.pc = "set_asp"]
                      ELSE idle_worker]
          /\ UNCHANGED <<asp, free>>
  /\ UNCHANGED <<scn, wsq, lazy, nthreads, prog, arg, deque, inbox, nseg, sem, result, terminated>>

\* final_await_suspend: tls::set_asp(stack_as_bytes(context->stack_pop()))
set_asp(w) ==
  /\ ~terminated
  /\ w \in Workers
  /\ wk[w].pc = "set_asp"
  /\ asp' = [asp EXCEPT ![w] = stack_pop_seg(w)]
  /\ free' = [free EXCEPT ![w] = @ \ {stack_pop_seg(w)}]
  /\ nseg' = IF free[w] = {} THEN nseg + 1 ELSE nseg
  /\ wk' = [wk EXCEPT ![w] = idle_worker]
  /\ UNCHANGED <<scn, wsq, lazy, nthreads, prog, arg, frame, deque, inbox, sem, result, terminated, njoin>>

\* ------------------------------------------------------------ the deque

\* Mutant: the compare-and-swap on top succeeds whatever top is.
cas_top_always(cur, expected) == TRUE

\* The compare-and-swap on the top index succeeds.
cas_top(cur, expected) == cur = expected

\* The owner pushes the next entry at the bottom.
dq_push ==
  /\ wsq.owner.pc = "idle"
  /\ wsq.pushed < MaxPush
  /\ wsq' = [wsq EXCEPT !.buf[wsq.bottom] = wsq.pushed + 1,
                      !.bottom = @ + 1,
                      !.pushed = @ + 1]
  /\ UNCHANGED <<scn, lazy, pool_vars>>

\* The owner's pop: it first moves bottom down over the entry.
dq_pop_begin ==
  /\ wsq.owner.pc = "idle"
  /\ wsq' = [wsq EXCEPT !.bottom = @ - 1,
                      !.owner = [pc |-> "pop_top", b |-> wsq.bottom - 1, t |-> 0]]
  /\ UNCHANGED <<scn, lazy, pool_vars>>

\* The owner's pop re-reads top: with more than one entry left it takes the
\* bottom one; with none it restores bottom; with one it goes to the CAS.
dq_pop_top ==
  /\ wsq.owner.pc = "pop_top"
  /\ LET b == wsq.owner.b
         t == wsq.top IN
     wsq' = IF t < b
           THEN [wsq EXCEPT !.taken[wsq.buf[b]] = @ + 1,
                           !.owner.pc = "idle"]
           ELSE IF t = b
           THEN [wsq EXCEPT !.owner.pc = "pop_cas", !.owner.t = t]
           ELSE [wsq EXCEPT !.bottom = b + 1, !.owner.pc = "idle"]
  /\ UNCHANGED <<scn, lazy, pool_vars>>

\* The owner's pop of the last entry: the CAS on top decides; bottom is
\* restored either way.
dq_pop_cas ==
  /\ wsq.owner.pc = "pop_cas"
  /\ LET b == wsq.owner.b IN
     wsq' = IF cas_top(wsq.top, wsq.owner.t)
           THEN [wsq EXCEPT !.top = wsq.owner.t + 1,
                           !.taken[wsq.buf[b]] = @ + 1,
                           !.bottom = b + 1, !.owner.pc = "idle"]
           ELSE [wsq EXCEPT !.bottom = b + 1, !.owner.pc = "idle"]
  /\ UNCHANGED <<scn, lazy, pool_vars>>

\* A thief's steal: it reads top,
dq_steal_top(th) ==
  /\ wsq.thief[th].pc = "idle"
  /\ wsq' = [wsq EXCEPT !.thief[th] = [pc |-> "steal_bottom", t |-> wsq.top, x |-> 0]]
  /\ UNCHANGED <<scn, lazy, pool_vars>>

\* then bottom: an empty deque fails the steal, otherwise it reads the top
\* entry,
dq_steal_bottom(th) ==
  /\ wsq.thief[th].pc = "steal_bottom"
  /\ LET t == wsq.thief[th].t IN
     wsq' = IF t < wsq.bottom
           THEN [wsq EXCEPT !.thief[th].pc = "steal_cas", !.thief[th].x = wsq.buf[t]]
           ELSE [wsq EXCEPT !.thief[th].pc = "idle"]
  /\ UNCHANGED <<scn, lazy, pool_vars>>

\* and the CAS on top decides whether it obtains the entry.
dq_steal_cas(th) ==
  /\ wsq.thief[th].pc = "steal_cas"
  /\ LET t == wsq.thief[th].t IN
     wsq' = IF cas_top(wsq.top, t)
           THEN [wsq EXCEPT !.top = t + 1,
                           !.taken[wsq.thief[th].x] = @ + 1,
                           !.thief[th].pc = "idle"]
           ELSE [wsq EXCEPT !.thief[th].pc = "idle"]
  /\ UNCHANGED <<scn, lazy, pool_vars>>

\* ------------------------------------------------------- the scan test

\* Mutant: bop adds into its left operand.
bop_into_lhs(s, lhs, rhs) == [s EXCEPT ![lhs] = s[lhs] + s[rhs]]

\* bop(lhs, rhs): *rhs = *lhs + *rhs.  An iterator is the position it points
\* to (begin() is 1), and s is the vector.
bop(s, lhs, rhs) == [s EXCEPT ![rhs] = s[lhs] + s[rhs]]

\* scan_up(beg, end), by its effect on the vector.
RECURSIVE scan_up(_, _, _)
scan_up(s, beg, end) ==
  LET size == end - beg
      mid == beg + size \div 2 IN
  IF size = 1 THEN s
  ELSE IF size = 2 THEN bop(s, beg, end - 1)
  ELSE bop(scan_up(scan_up(s, beg, mid), mid, end), mid - 1, end - 1)

\* scan_down_r(beg, end)
RECURSIVE scan_down_r(_, _, _)
scan_down_r(s, beg, end) ==
  LET size == end - beg
      mid == beg + size \div 2 IN
  IF size = 1 THEN s
  ELSE IF size = 2 THEN [s EXCEPT ![beg] = @ + s[beg - 1]]
  ELSE scan_down_r(scan_down_r([s EXCEPT ![mid - 1] = @ + s[beg - 1]], beg, mid),
                   mid, end)

\* scan_down_l(beg, end)
RECURSIVE scan_down_l(_, _, _)
scan_down_l(s, beg, end) ==
  LET size == end - beg
      mid == beg + size \div 2 IN
  IF size = 1 \/ size = 2 THEN s
  ELSE scan_down_r(scan_down_l(s, beg, mid), mid, end)

\* std::vector<int> v(n, 1)
ones(n) == [i \in 1 .. n |-> 1]

\* The vectors scanned: those of the test, and every vector of 0, 1 and 2
\* of up to MaxLen elements.
ScanInputs ==
  {ones(n) : n \in 1 .. ScanMaxN}
    \cup UNION {[1 .. n -> 0 .. 2] : n \in 1 .. MaxLen}

\* scan(beg, end): scan_up(beg, end);
scan_up_sweep ==
  /\ scn.pc = "scan_up"
  /\ scn' = [scn EXCEPT !.v = scan_up(scn.v, 1, Len(scn.v) + 1), !.pc = "scan_down_l"]
  /\ UNCHANGED <<wsq, lazy, pool_vars>>

\* scan_down_l(beg, end);
scan_down_sweep ==
  /\ scn.pc = "scan_down_l"
  /\ scn' = [scn EXCEPT !.v = scan_down_l(scn.v, 1, Len(scn.v) + 1), !.pc = "done"]
  /\ UNCHANGED <<wsq, lazy, pool_vars>>

\* ------------------------------------------------------- sleep and wake

\* Mutant: the sleeper does not look again once it is marked sleeping.
recheck_finds_work_never(queue) == FALSE

\* The sleeper's re-check, under the sleeping state, of the deques and
\* inboxes.
recheck_finds_work(queue) == queue > 0

\* A worker finds an entry and claims it.
sl_claim(w) ==
  /\ lazy.pc[w] = "scan"
  /\ lazy.queue > 0
  /\ lazy' = [lazy EXCEPT !.queue = @ - 1]
  /\ UNCHANGED <<scn, wsq, pool_vars>>

\* A worker finds no work in its inbox, its deque or a victim's.
sl_scan_empty(w) ==
  /\ lazy.pc[w] = "scan"
  /\ lazy.queue = 0
  /\ lazy' = [lazy EXCEPT !.pc[w] = "mark"]
  /\ UNCHANGED <<scn, wsq, pool_vars>>

\* Having found none, it marks itself sleeping in the pool's bitmap.
sl_mark(w) ==
  /\ lazy.pc[w] = "mark"
  /\ lazy' = [lazy EXCEPT !.sleeping = @ \cup {w}, !.pc[w] = "recheck"]
  /\ UNCHANGED <<scn, wsq, pool_vars>>

\* Marked sleeping, it re-checks: with work it unmarks itself and continues,
\* without it parks on its wakeword.
sl_recheck(w) ==
  /\ lazy.pc[w] = "recheck"
  /\ lazy' = IF recheck_finds_work(lazy.queue)
             THEN [lazy EXCEPT !.sleeping = @ \ {w}, !.pc[w] = "scan"]
             ELSE [lazy EXCEPT !.pc[w] = "park"]
  /\ UNCHANGED <<scn, wsq, pool_vars>>

\* A parked worker whose wakeword was pulsed wakes up.
sl_unpark(w) ==
  /\ lazy.pc[w] = "park"
  /\ w \in lazy.wake
  /\ lazy' = [lazy EXCEPT !.wake = @ \ {w}, !.sleeping = @ \ {w}, !.pc[w] = "scan"]
  /\ UNCHANGED <<scn, wsq, pool_vars>>

\* A push to a deque or an inbox publishes an entry,
sl_publish ==
  /\ lazy.pusher = "idle"
  /\ lazy.published < MaxPush
  /\ lazy' = [lazy EXCEPT !.queue = @ + 1, !.published = @ + 1, !.pusher = "check"]
  /\ UNCHANGED <<scn, wsq, pool_vars>>

\* and then checks the sleeping bitmap and wakes one sleeper.
sl_wake_one ==
  /\ lazy.pusher = "check"
  /\ IF lazy.sleeping = {}
     THEN lazy' = [lazy EXCEPT !.pusher = "idle"]
     ELSE \E s \in lazy.sleeping :
            lazy' = [lazy EXCEPT !.wake = @ \cup {s}, !.pusher = "idle"]
  /\ UNCHANGED <<scn, wsq, pool_vars>>

\* --------------------------------------------------------- specification

Next ==
  \E w \in AllWorkers :
    \/ resume_submitted(w)
    \/ \E v \in AllWorkers : steal(w, v)
    \/ fork_await_suspend(w)
    \/ call_await_suspend(w)
    \/ co_return(w)
    \/ join_await_ready(w)
    \/ join_await_suspend(w)
    \/ join_await_resume(w)
    \/ final_suspend(w)
    \/ task_pop(w)
    \/ fetch_sub(w)
    \/ set_asp(w)

Spec == Init /\ [][Next]_vars

\* The workers are threads that keep running: while a step of the pool is
\* possible, one is taken.
FairSpec == Spec /\ WF_vars(Next)

\* sync_wait on a unit_pool: one worker, whose context is single-threaded.
InitUnit ==
  /\ nthreads = 1
  /\ prog \in {"fib", "fan"}
  /\ arg \in 0 .. (MaxN + 1)
  /\ submitted
  /\ scn = no_scan

\* The steps of the one worker of a unit_pool: it has no victim to steal
\* from, and the steps that follow a push of fork_awaitable (the pop and the
\* rest of final_await_suspend, the suspension at a join) are left to C16 to
\* show unreachable.
NextUnit ==
  \E w \in AllWorkers :
    \/ resume_submitted(w)
    \/ fork_await_suspend(w)
    \/ call_await_suspend(w)
    \/ co_return(w)
    \/ join_await_ready(w)
    \/ join_await_resume(w)
    \/ final_suspend(w)

SpecUnit == InitUnit /\ [][NextUnit]_vars

\* sync_wait of a task that awaits a context.
InitSwitch ==
  /\ nthreads = NumWorkers
  /\ prog = "hop"
  /\ arg \in 0 .. MaxN
  /\ submitted
  /\ scn = no_scan

NextSwitch ==
  \/ Next
  \/ \E w \in AllWorkers : switch_await(w)

SpecSwitch == InitSwitch /\ [][NextSwitch]_vars

\* One deque, its owner and its thieves.
InitDeque ==
  /\ nthreads = NumWorkers
  /\ prog = "fib"
  /\ arg = 0
  /\ submitted
  /\ scn = no_scan

NextDeque ==
  \/ dq_push
  \/ dq_pop_begin
  \/ dq_pop_top
  \/ dq_pop_cas
  \/ \E th \in Thieves : dq_steal_top(th)
  \/ \E th \in Thieves : dq_steal_bottom(th)
  \/ \E th \in Thieves : dq_steal_cas(th)

SpecDeque == InitDeque /\ [][NextDeque]_vars

\* The workers of a lazy pool going to sleep, and a pusher.
NextSleep ==
  \/ \E w \in Sleepers : sl_claim(w)
  \/ \E w \in Sleepers : sl_scan_empty(w)
  \/ \E w \in Sleepers : sl_mark(w)
  \/ \E w \in Sleepers : sl_recheck(w)
  \/ \E w \in Sleepers : sl_unpark(w)
  \/ sl_publish
  \/ sl_wake_one

\* The workers and the pusher are threads that keep running.
SpecSleep == InitDeque /\ [][NextSleep]_vars /\ WF_vars(NextSleep)

\* sync_wait of a task that forks and does not join, on the pool of one
\* more worker.
InitNoJoin ==
  /\ nthreads = NumWorkers + 1
  /\ prog = "nojoin"
  /\ arg \in 0 .. MaxN
  /\ submitted
  /\ scn = no_scan

\* sync_wait(schedule, fib, ForkN) with the fork taken statement by
\* statement.
ForkN == 3

InitFork ==
  /\ nthreads = NumWorkers
  /\ prog = "fib"
  /\ arg = ForkN
  /\ submitted
  /\ scn = no_scan

NextFork ==
  \E w \in AllWorkers :
    \/ resume_submitted(w)
    \/ \E v \in AllWorkers : steal(w, v)
    \/ fork_read(w)
    \/ fork_push(w)
    \/ fork_return(w)
    \/ call_await_suspend(w)
    \/ co_return(w)
    \/ join_await_ready(w)
    \/ join_await_suspend(w)
    \/ join_await_resume(w)
    \/ final_suspend(w)
    \/ task_pop(w)
    \/ fetch_sub(w)
    \/ set_asp(w)

SpecFork == InitFork /\ [][NextFork]_vars

\* Its steps: the tasks evaluate no join.
NextNoJoin ==
  \E w \in AllWorkers :
    \/ resume_submitted(w)
    \/ \E v \in AllWorkers : steal(w, v)
    \/ fork_await_suspend(w)
    \/ call_await_suspend(w)
    \/ no_join(w)
    \/ co_return(w)
    \/ final_suspend(w)
    \/ task_pop(w)
    \/ fetch_sub(w)
    \/ set_asp(w)

SpecNoJoin == InitNoJoin /\ [][NextNoJoin]_vars

\* The scan test: scan(v.begin(), v.end()) on each vector.
InitScan ==
  /\ nthreads = NumWorkers
  /\ prog = "fib"
  /\ arg = 0
  /\ submitted
  /\ scn \in {[pc |-> "scan_up", input |-> s, v |-> s] : s \in ScanInputs}

NextScan ==
  \/ scan_up_sweep
  \/ scan_down_sweep

SpecScan == InitScan /\ [][NextScan]_vars

\* The smallest fan whose first forked child forks twice itself.
WideN == 3

\* That fan on a pool of one more worker.
InitWide ==
  /\ nthreads = NumWorkers + 1
  /\ prog = "fan"
  /\ arg = WideN
  /\ submitted
  /\ scn = no_scan

SpecWide == InitWide /\ [][Next]_vars

\* The exception tests: sync_wait(schedule, fib, j) and
\* sync_wait(schedule, fib_integ, j).
InitExc ==
  /\ nthreads = NumWorkers
  /\ prog \in ExcProgs
  /\ arg \in (0 .. MaxN) \cup {Unlucky}
  /\ submitted
  /\ scn = no_scan

NextExc ==
  \/ Next
  \/ \E w \in AllWorkers : catch_all(w)
  \/ \E w \in AllWorkers : unhandled_exception(w)

SpecExc == InitExc /\ [][NextExc]_vars

\* ------------------------------------------------------------ type check

TypeOK ==
  /\ \A f \in DOMAIN frame :
       /\ frame[f].steals \in 0 .. k_u32_max
       /\ frame[f].joins \in 0 .. k_u32_max
  /\ \A w \in Workers : wk[w].pc \in {"idle", "body", "await_suspend", "await_resume",
                                      "final_suspend", "task_pop", "fetch_sub", "set_asp"}

\* ============================================================== the claims

Frames == DOMAIN frame

\* The workers that are executing frame f.
Runners(f) == {w \in Workers : wk[w].self = f}

\* The forked children of f whose report to f is still to come: the child is
\* not yet destroyed, or its worker is in final_await_suspend before its
\* fetch_sub on f.joins.
Unreported(f) ==
  {c \in Frames : frame[c].parent = f /\ frame[c].tag = "fork" /\ frame[c].alive}
    \cup {-(w + 1) : w \in {v \in Workers : wk[v].parent = f
                                           /\ wk[v].pc \in {"task_pop", "fetch_sub"}}}

\* f is suspended at its join, having lost the race in await_suspend.
Suspended(f) ==
  /\ frame[f].alive
  /\ njoin[f].by = "lost"
  /\ Runners(f) = {}

\* The frames f has forked or called.
Children(f) == {c \in Frames : frame[c].parent = f}

\* C1: after a join the parent's continuation is resumed by at most one
\* worker: a frame has at most one worker executing it, and it completes no
\* more joins than it has evaluated.
C1_OneResumer ==
  \A f \in Frames :
    /\ Cardinality(Runners(f)) <= 1
    /\ njoin[f].end <= njoin[f].begin

\* C1 witness: a parent on a stack whose continuation was stolen twice has
\* lost the race at its join, one child having reported and one not.
C1_Witness ==
  \E f \in Frames :
    /\ Suspended(f) /\ frame[f].tag # "root"
    /\ frame[f].steals = 2 /\ frame[f].joins = 1

\* C2: no join is lost: a parent suspended at its join has a child whose report
\* is still to come, and joins counts exactly those children, so the one that
\* reports last reads 1 and resumes the parent; and no parent stays suspended
\* forever.
C2_NoLostJoin ==
  /\ [](\A f \in Frames :
         Suspended(f) => /\ Unreported(f) # {}
                         /\ frame[f].joins = Cardinality(Unreported(f)))
  /\ <>[](\A f \in Frames : ~Suspended(f))

\* C2 witness: the last child of a suspended parent is at its fetch_sub.
C2_Witness ==
  \E f \in Frames : \E w \in Workers :
    /\ Suspended(f)
    /\ wk[w].pc = "fetch_sub" /\ wk[w].parent = f
    /\ frame[f].joins = 1

\* C3: join is a barrier: when the statement after a join runs, every child
\* of the frame has finished its body, written its result and been destroyed.
C3_JoinBarrier ==
  \A f \in Frames :
    frame[f].pos = "sum" =>
      /\ \A c \in Children(f) : ~frame[c].alive
      /\ frame[f].a # Undef /\ frame[f].b # Undef
      /\ (prog = "fan" => frame[f].a2 # Undef)
      /\ Cardinality(Children(f)) = IF prog = "fan" THEN 3 ELSE 2

\* C3 witness: a frame on a stack is past a join that a child completed.
C3_Witness ==
  \E f \in Frames :
    /\ frame[f].pos = "sum" /\ frame[f].alive
    /\ frame[f].tag # "root"
    /\ njoin[f].by = "child"

\* The sequential fib of the benchmark.
RECURSIVE sfib(_)
sfib(n) == IF n < 2 THEN n ELSE sfib(n - 1) + sfib(n - 2)

\* C4: sync_wait(sch, fib, n) returns the sequential fib(n).
C4_FibValue ==
  (prog = "fib" /\ sem > 0) => result = sfib(arg)

\* C4 witness: fib(MaxN) has returned after a steal.
C4_Witness ==
  /\ prog = "fib" /\ arg = MaxN /\ sem > 0
  /\ result = sfib(MaxN)
  /\ \E f \in Frames : njoin[f].by = "child"

\* C5: a frame at final suspend, about to be destroyed, has steals = 0 and
\* joins = U32_MAX (and no fork without its join).
C5_FinalSuspendAsserts ==
  \A w \in Workers :
    wk[w].pc = "final_suspend" => final_suspend_asserts(frame[wk[w].self])

\* C5 witness: a frame that was stolen and joined is at final suspend.
C5_Witness ==
  \E w \in Workers :
    /\ wk[w].pc = "final_suspend"
    /\ njoin[wk[w].self].by \in {"ready", "won", "child"}

\* C6: when a join completes, the frame has steals = 0 and joins = U32_MAX
\* and, for a task on a stack, the worker's active stack is the frame's.
C6_JoinResumeAsserts ==
  \A w \in Workers :
    wk[w].pc = "await_resume" => join_resume_asserts(frame[wk[w].self], asp[w])

\* C6 witness: the last child resumes a parent that is on a stack, having
\* taken the parent's stack.
C6_Witness ==
  \E w \in Workers :
    /\ wk[w].pc = "await_resume"
    /\ frame[wk[w].self].tag # "root"
    /\ njoin[wk[w].self].by = "child"
    /\ asp[w] = frame[wk[w].self].top
    /\ free[w] # {}

\* A worker in the window of final_await_suspend between its decrement of
\* the parent's join counter, as a child that is not the last, and its swap
\* to a fresh segment.
Releasing(w) == wk[w].pc = "set_asp"

\* C7 as claimed: at every instant a stack segment is the active stack
\* pointer of at most one worker.
C7_Claimed ==
  \A v, w \in Workers : v # w => asp[v] # asp[w]

\* C7 as amended: a stack segment is the active stack pointer of at most one
\* worker outside that window: two workers share a segment only while one of
\* them is about to swap it for a fresh one.
C7_OneOwnerOutsideWindow ==
  \A v, w \in Workers :
    (v # w /\ asp[v] = asp[w]) => (Releasing(v) \/ Releasing(w))

\* C7 witness: the parent has taken its stack at join while the child that
\* reported before it has not yet swapped the segment.
C7_Witness ==
  \E v, w \in Workers :
    /\ v # w /\ asp[v] = asp[w]
    /\ Releasing(v)
    /\ wk[w].pc = "await_resume"

\* C8: the root's semaphore is released once, at the root's final suspend;
\* the root frame is then destroyed and the worker yields to the executor,
\* resuming no frame.
C8_RootReleasesOnce ==
  /\ [](sem <= 1 /\ (sem = 1 <=> ~frame[RootId].alive))
  /\ [][sem' # sem =>
         \E w \in Workers :
           /\ wk[w].pc = "final_suspend" /\ wk[w].self = RootId
           /\ sem' = sem + 1
           /\ ~frame'[RootId].alive
           /\ wk'[w] = idle_worker]_vars

\* C8 witness: the root has completed after its continuation was stolen.
C8_Witness ==
  /\ sem = 1 /\ ~frame[RootId].alive
  /\ njoin[RootId].by \in {"ready", "won", "child"}
  /\ \A w \in Workers : wk[w].pc = "idle"

\* C9: a failure that escapes a task body uncaught is captured into the
\* task's exception slot and does not terminate the process.
C9_EscapedIsCaptured ==
  \A f \in Frames :
    frame[f].escaped => (frame[f].exception /\ ~terminated)

C11_RaisesIffUnlucky ==
  /\ (arg >= Unlucky => ~terminated)
  /\ (sem = 1 => arg < Unlucky)

\* The places of the deques that hold f, and of the inboxes.
Published(f) ==
  UNION {{<<w, i>> : i \in {j \in DOMAIN deque[w] : deque[w][j] = f}} : w \in Workers}

InInbox(f) == {w \in Workers : \E i \in DOMAIN inbox[w] : inbox[w][i] = f}

\* C12: a task frame is executed by at most one worker: it is either run by
\* one worker, or published once (in one deque or inbox) and run by none; a
\* destroyed frame is run by none and published nowhere.
C12_OneExecutor ==
  \A f \in Frames :
    /\ Cardinality(Runners(f)) + Cardinality(Published(f)) + Cardinality(InInbox(f)) <= 1
    /\ (~frame[f].alive => Runners(f) \cup Published(f) \cup InInbox(f) = {})
    /\ (Suspended(f) => Published(f) = {})

\* C12 witness: a child at final suspend is about to pop its parent, the
\* one entry of its worker's deque, while another worker is looking for a
\* frame to steal.
C12_Witness ==
  \E w, v \in Workers :
    /\ v # w /\ wk[v].pc = "idle"
    /\ wk[w].pc = "task_pop" /\ deque[w] = <<wk[w].parent>>

\* The pool has nothing left to do: every worker is in its loop with no
\* frame, and every deque and inbox is empty.
Quiescent ==
  \A w \in Workers : wk[w].pc = "idle" /\ deque[w] = << >> /\ inbox[w] = << >>

NewForks == {c \in (DOMAIN frame') \ (DOMAIN frame) : frame'[c].tag = "fork"}

\* The step of a fork: the parent's continuation becomes the bottom entry of
\* the forking worker's deque and that worker executes the child.
ForkPublishesAndDives ==
  \A c \in NewForks :
    LET w == njoin'[c].forker
        p == frame'[c].parent IN
    /\ wk[w].self = p
    /\ deque'[w] = Append(deque[w], p)
    /\ \A v \in Workers \ {w} : deque'[v] = deque[v]
    /\ wk'[w].self = c /\ wk'[w].pc = "body"

\* The forked children of the frame worker w executes that w itself forked
\* and that are not yet destroyed at their final suspend.
OwnForksAlive(w) ==
  {c \in Frames : /\ frame[c].tag = "fork" /\ frame[c].alive
                  /\ frame[c].parent = wk[w].self
                  /\ njoin[c].forker = w}

NewCalls == {c \in (DOMAIN frame') \ (DOMAIN frame) : frame'[c].tag = "call"}

\* The step of a call: nothing is pushed, the worker executes the child.
CallDoesNotPublish ==
  \A c \in NewCalls :
    /\ deque' = deque /\ inbox' = inbox
    /\ \E w \in Workers : wk[w].self = frame'[c].parent /\ wk'[w] = running(c, "body")

\* The final suspend of a called child: the parent is resumed on the same
\* worker; no deque, no control block of the parent and no stack changes.
CallFinalResumesParent ==
  \A w \in Workers :
    (wk[w].pc = "final_suspend" /\ frame[wk[w].self].tag = "call" /\ wk'[w] # wk[w]) =>
      LET c == wk[w].self
          p == frame[c].parent IN
      /\ wk'[w] = running(p, "body")
      /\ ~frame'[c].alive
      /\ frame'[p] = frame[p]
      /\ deque' = deque /\ inbox' = inbox
      /\ asp' = asp /\ free' = free

\* C15: call never publishes the parent: the call pushes nothing, while the
\* called child is alive its parent is in no deque and is run by no worker,
\* and the child's final suspend resumes the parent on the same worker with
\* the deques, the parent's steals and joins and the stacks unchanged.
C15_CallNeverPublishes ==
  /\ [][CallDoesNotPublish /\ CallFinalResumesParent]_vars
  /\ [](\A c \in Frames :
          (frame[c].tag = "call" /\ frame[c].alive) =>
             Published(frame[c].parent) \cup Runners(frame[c].parent) = {})

\* C15 witness: a called child is at its final suspend, its parent having
\* been stolen before the call.
C15_Witness ==
  \E w \in Workers :
    /\ wk[w].pc = "final_suspend"
    /\ frame[wk[w].self].tag = "call"
    /\ frame[frame[wk[w].self].parent].steals = 1

\* C16: on a unit_pool a fork is transformed into a call: no task is tagged
\* fork, nothing is pushed to the deque, steals stays 0 (and joins at its
\* initial value), every join takes the fast path, no worker goes to
\* final_await_suspend or suspends at a join, and the tasks execute as with a
\* call: a frame runs only when every child it made is destroyed, and fib
\* returns the sequential value.
C16_UnitForkIsCall ==
  /\ \A w \in Workers :
       /\ deque[w] = << >>
       /\ wk[w].pc \in {"idle", "body", "await_resume", "final_suspend"}
  /\ \A f \in Frames :
       /\ frame[f].tag \in {"root", "call"}
       /\ frame[f].steals = 0 /\ frame[f].joins = k_u32_max
       /\ njoin[f].by \in {"none", "fast"}
       /\ (Runners(f) # {} => \A c \in Children(f) : ~frame[c].alive)
  /\ ((prog = "fib" /\ sem = 1) => result = sfib(arg))

\* C16 witness: on the unit_pool a fan is past its join, taken on the fast
\* path, with its two forked children and its called child destroyed.
C16_Witness ==
  \E f \in Frames :
    /\ single_thread_context /\ prog = "fan"
    /\ frame[f].pos = "sum" /\ njoin[f].by = "fast"
    /\ Cardinality(Children(f)) = 3
    /\ \A c \in Children(f) : ~frame[c].alive

\* The step of a context switch of f from worker A to another worker: f is
\* appended to the destination's inbox, and to no other, and A returns to its
\* loop without f.
SwitchSubmitsOnce ==
  \A f \in Frames : \A A \in Workers :
    (frame[f].pos = "switch" /\ frame'[f].pos # "switch"
       /\ wk[A].self = f /\ frame'[f].dest # get_ctx(A)) =>
      /\ inbox' = [inbox EXCEPT ![frame'[f].dest] = Append(@, f)]
      /\ wk'[A] = idle_worker
      /\ deque' = deque

\* A worker that takes up f after its switch is the destination.
SwitchResumesOnDest ==
  \A f \in Frames : \A B \in Workers :
    (frame[f].dest # NoWorker /\ frame[f].pos = "start"
       /\ wk[B].self # f /\ wk'[B].self = f) =>
      /\ get_ctx(B) = frame[f].dest
      /\ inbox[B] # << >> /\ Head(inbox[B]) = f /\ inbox'[B] = Tail(inbox[B])

\* C17: a task on worker A that awaits the context of another worker B is
\* submitted to B's inbox exactly once, does not continue on A, and next
\* runs on B, where the current context is B's.
C17_ContextSwitch ==
  /\ [][SwitchSubmitsOnce /\ SwitchResumesOnDest]_vars
  /\ [](\A f \in Frames :
          /\ Cardinality(Runners(f)) + Cardinality(InInbox(f)) <= 1
          /\ \A w \in Workers :
               Cardinality({i \in DOMAIN inbox[w] : inbox[w][i] = f}) <= 1
          /\ \A w \in Runners(f) :
               (frame[f].dest # NoWorker /\ frame[f].pos = "start") =>
                 get_ctx(w) = frame[f].dest)

\* C17 witness: the task, submitted to worker 0 and switched to another
\* worker, runs there.
C17_Witness ==
  \E f \in Frames : \E B \in Workers :
    /\ B # 0 /\ frame[f].dest = B
    /\ frame[f].pos = "start"
    /\ wk[B].self = f /\ wk[B].pc = "body"
    /\ wk[0].pc = "idle"

\* The entries in the deque when nobody is operating on it.
DqContents == {wsq.buf[i] : i \in {j \in 0 .. (MaxPush - 1) : wsq.top <= j /\ j < wsq.bottom}}

DqAllIdle ==
  /\ wsq.owner.pc = "idle"
  /\ \A th \in Thieves : wsq.thief[th].pc = "idle"

\* C18: no entry of the deque is returned twice, whoever races for it (the
\* owner's pop of the last entry against the thieves' steals), and none is
\* lost: whenever no operation is under way, the entries pushed are those
\* returned once and those still in the deque.
C18_DequeRace ==
  /\ \A x \in Entries : wsq.taken[x] <= 1
  /\ DqAllIdle =>
       \A x \in Entries :
         /\ x > wsq.pushed => (wsq.taken[x] = 0 /\ x \notin DqContents)
         /\ x <= wsq.pushed => (wsq.taken[x] = 1 <=> x \notin DqContents)

\* C18 witness: the owner and every thief are at their CAS for the last
\* entry of the deque.
C18_Witness ==
  /\ wsq.owner.pc = "pop_cas"
  /\ wsq.top = wsq.owner.t /\ wsq.top + 1 = wsq.pushed
  /\ \A th \in Thieves : wsq.thief[th].pc = "steal_cas" /\ wsq.thief[th].t = wsq.top

\* An entry is published and unclaimed, every worker is parked with no
\* wake-up pending, and no push is still to check the bitmap.
LostWakeup ==
  /\ lazy.queue > 0
  /\ lazy.pusher = "idle"
  /\ \A w \in Sleepers : lazy.pc[w] = "park" /\ w \notin lazy.wake

\* C19: no wake-up is lost: the pool is never left with an entry unclaimed
\* and every worker parked without a pending wake-up, and every published
\* entry is claimed in the end.
C19_NoLostWakeup ==
  /\ [](~LostWakeup)
  /\ (lazy.queue > 0) ~> (lazy.queue = 0)

\* C19 witness: a push races with a worker going to sleep: the entry is
\* published and the pusher has not yet checked the bitmap, a worker has
\* marked itself sleeping and has not yet re-checked, the others are parked.
C19_Witness ==
  /\ lazy.queue > 0 /\ lazy.pusher = "check"
  /\ \E w \in Sleepers :
       /\ lazy.pc[w] = "recheck"
       /\ \A v \in Sleepers \ {w} : lazy.pc[v] = "park" /\ v \notin lazy.wake

\* Worker w evaluates the join of the task it runs, which has no steals.
JoinEvaluatedUnstolen(w) ==
  /\ w \in Workers
  /\ wk[w].pc = "body"
  /\ wk[w].self # NoFrame
  /\ frame[wk[w].self].pos = "join"
  /\ frame[wk[w].self].steals = 0
  /\ njoin'[wk[w].self].begin = njoin[wk[w].self].begin + 1

\* C20: a join evaluated with steals = 0 is ready at once, by the fast path:
\* the task goes on to resume on the same worker, and no frame, no worker's
\* stack pointer and no free stack segment changes.
C20_JoinFastPath ==
  [][\A w \in AllWorkers :
       JoinEvaluatedUnstolen(w) =>
         /\ wk'[w] = [wk[w] EXCEPT !.pc = "await_resume"]
         /\ njoin'[wk[w].self].by = "fast"
         /\ UNCHANGED <<frame, asp, free, deque, inbox>>]_vars

\* C20 witness: a forked task that itself forked and called has joined by the
\* fast path and is about to resume.
C20_Witness ==
  \E w \in Workers :
    /\ wk[w].pc = "await_resume"
    /\ wk[w].self # NoFrame
    /\ frame[wk[w].self].tag = "fork"
    /\ frame[wk[w].self].steals = 0
    /\ njoin[wk[w].self].by = "fast"

\* Worker w evaluates the join of the task it runs, whose continuation was
\* stolen and whose stolen-from children have all reported.
JoinEvaluatedReady(w) ==
  /\ w \in Workers
  /\ wk[w].pc = "body"
  /\ wk[w].self # NoFrame
  /\ frame[wk[w].self].pos = "join"
  /\ frame[wk[w].self].steals # 0
  /\ k_u32_max - frame[wk[w].self].joins = frame[wk[w].self].steals
  /\ njoin'[wk[w].self].begin = njoin[wk[w].self].begin + 1

\* C21: a join evaluated with steals # 0 and U32_MAX - joins = steals does
\* not suspend: the worker goes on to resume the task, its active stack
\* becomes the frame's saved top (for a task on a stack; the segment it had
\* goes to its free list), and the frame is reset to steals = 0 and joins =
\* U32_MAX; after such a join no child's report is outstanding and the counter
\* stays at U32_MAX.
C21_JoinReadySlowPath ==
  /\ [][\A w \in AllWorkers :
         JoinEvaluatedReady(w) =>
           LET f == wk[w].self IN
           /\ wk'[w] = [wk[w] EXCEPT !.pc = "await_resume"]
           /\ njoin'[f].by = "ready"
           /\ frame' = [frame EXCEPT ![f].steals = 0, ![f].joins = k_u32_max]
           /\ IF frame[f].tag = "root"
              THEN UNCHANGED <<asp, free>>
              ELSE /\ asp' = [asp EXCEPT ![w] = frame[f].top]
                   /\ free' = [free EXCEPT ![w] = @ \cup {asp[w]}]
                   /\ asp[w] # frame[f].top
           /\ UNCHANGED <<deque, inbox>>]_vars
  /\ [](\A f \in Frames :
          njoin[f].by = "ready" =>
            /\ frame[f].joins = k_u32_max /\ frame[f].steals = 0
            /\ Unreported(f) = {})

\* C21 witness: a task on a stack, stolen, has found its join ready on the
\* slow path and its worker has taken the frame's stack.
C21_Witness ==
  \E w \in Workers :
    /\ wk[w].pc = "await_resume"
    /\ wk[w].self # NoFrame
    /\ frame[wk[w].self].tag # "root"
    /\ njoin[wk[w].self].by = "ready"
    /\ asp[w] = frame[wk[w].self].top
    /\ free[w] # {}

\* C22: the parent's fetch_sub of U32_MAX - steals at its join does not wrap;
\* the value it leaves is steals less the children that have reported, which
\* is the number of children whose report is outstanding, between 0 and
\* steals; and the parent wins the race, going on to resume, exactly when the
\* value it read was U32_MAX - steals; otherwise it leaves that value in joins
\* and returns to its loop.
C22_JoinRebase ==
  [][\A w \in AllWorkers :
       (w \in Workers /\ wk[w].pc = "await_suspend" /\ wk'[w] # wk[w]) =>
         LET f == wk[w].self
             st == frame[f].steals
             joined == frame[f].joins
             left == joined - (k_u32_max - st) IN
         /\ left >= 0 /\ left <= st
         /\ left = st - (k_u32_max - joined)
         /\ left = Cardinality(Unreported(f))
         /\ (wk'[w].pc = "await_resume") <=> (joined = k_u32_max - st)
         /\ IF joined = k_u32_max - st
            THEN wk'[w] = [wk[w] EXCEPT !.pc = "await_resume"]
            ELSE /\ wk'[w] = idle_worker
                 /\ frame' = [frame EXCEPT ![f].joins = left]]_vars

\* C22 witness: a parent on a stack, stolen once, has re-based its counter
\* before its child reported: joins is 1 and the child's worker is at its
\* final suspend.
C22_Witness ==
  \E f \in Frames : \E w \in Workers :
    /\ Suspended(f) /\ frame[f].tag # "root"
    /\ frame[f].steals = 1 /\ frame[f].joins = 1
    /\ wk[w].pc = "final_suspend" /\ frame[wk[w].self].parent = f
    /\ frame[wk[w].self].tag = "fork"

\* f has lost the race at its join and has not been resumed since.
LostRace(f) == njoin[f].by = "lost"

\* The step changes the control block of f.
ControlBlockChanges(f) ==
  \/ frame'[f].joins # frame[f].joins
  \/ frame'[f].steals # frame[f].steals

\* The step in which worker w, at the fetch_sub of its join, loses the race.
LosesJoinRace(w) ==
  /\ w \in Workers
  /\ wk[w].pc = "await_suspend"
  /\ wk'[w] # wk[w]
  /\ frame[wk[w].self].joins # k_u32_max - frame[wk[w].self].steals

\* C23 as claimed: once a frame has lost the race at its join, every access
\* to its control block is made by the worker that resumes it.
C23_Claimed ==
  [][\A f \in Frames :
       (LostRace(f) /\ ControlBlockChanges(f)) =>
         \E w \in Workers : wk'[w].self = f]_vars

\* C23 as amended: the worker that loses the race returns to its loop with
\* no reference to the frame and without having touched a stack (it does not
\* run on the frame's stack); while the frame is suspended it is alive, run by
\* no worker and published nowhere, and its control block is accessed only by
\* the report of a child at its final suspend: a child that is not the last
\* decrements joins and does not resume the frame, the last one resets the
\* frame and resumes it; and no child is about to report to a destroyed
\* frame.
C23_LoserLetsGo ==
  /\ [][\A w \in AllWorkers :
         LosesJoinRace(w) =>
           LET f == wk[w].self IN
           /\ wk'[w] = idle_worker
           /\ \A g \in Frames \ {f} : frame'[g] = frame[g]
           /\ UNCHANGED <<asp, free, deque, inbox>>
           /\ (frame[f].tag # "root" => asp[w] # frame[f].top)]_vars
  /\ [][\A f \in Frames :
         (LostRace(f) /\ ControlBlockChanges(f)) =>
           \E w \in Workers :
             /\ wk[w].pc = "fetch_sub" /\ wk[w].parent = f
             /\ IF frame[f].joins = 1
                THEN /\ wk'[w] = running(f, "await_resume")
                     /\ frame'[f] = reset(frame[f])
                ELSE /\ wk'[w].self = NoFrame
                     /\ frame'[f] = [frame[f] EXCEPT !.joins = @ - 1]]_vars
  /\ [](\A f \in Frames :
          LostRace(f) =>
            /\ frame[f].alive
            /\ Runners(f) = {} /\ Published(f) = {} /\ InInbox(f) = {})
  /\ [](\A w \in Workers :
          wk[w].pc \in {"task_pop", "fetch_sub"} => frame[wk[w].parent].alive)

\* C23 witness: a frame has lost the race with two children still to report,
\* and one of them, which is not the last, is at its fetch_sub.
C23_Witness ==
  \E f \in Frames : \E w \in Workers :
    /\ LostRace(f) /\ frame[f].joins = 2
    /\ wk[w].pc = "fetch_sub" /\ wk[w].parent = f

\* The step in which worker w, at a forked child's final suspend, pops an
\* entry from its own deque.
PopsAnEntry(w) ==
  /\ w \in Workers
  /\ wk[w].pc = "task_pop"
  /\ deque[w] # << >>
  /\ wk'[w] # wk[w] \/ terminated' # terminated

\* C24: when the pop at a forked child's final suspend returns an entry, the
\* entry is the child's parent (the assertion does not fail), the worker
\* resumes the parent, and no control block, stack pointer or free segment
\* changes: the entry leaves the bottom of the worker's deque and nothing
\* else is touched.
C24_PopResumesParent ==
  [][\A w \in AllWorkers :
       PopsAnEntry(w) =>
         LET p == wk[w].parent IN
         /\ deque[w][Len(deque[w])] = p
         /\ ~terminated'
         /\ wk'[w] = running(p, "body")
         /\ deque' = [deque EXCEPT ![w] = SubSeq(@, 1, Len(@) - 1)]
         /\ UNCHANGED <<frame, asp, free, nseg, inbox>>]_vars

\* C24 witness: a task on a stack that a thief runs (steals = 1) has been
\* resumed by the pop of the child it forked on the thief, on a segment that
\* is not its own.
C24_Witness ==
  \E w \in Workers :
    /\ wk[w].pc = "body" /\ wk[w].self # NoFrame
    /\ LET p == wk[w].self IN
       /\ frame[p].tag # "root" /\ frame[p].pos = "call"
       /\ frame[p].steals = 1
       /\ fork_child(p, "fork2") \in Frames
       /\ ~frame[fork_child(p, "fork2")].alive
       /\ asp[w] # frame[p].top

\* The step in which worker w, at a forked child's final suspend with the
\* parent stolen, reads 1 at its fetch_sub on the parent's joins.
ReportsAsLast(w) ==
  /\ w \in Workers
  /\ wk[w].pc = "fetch_sub"
  /\ wk'[w] # wk[w]
  /\ frame[wk[w].parent].joins = 1

\* C25: a child's fetch_sub on the parent's joins returns 1 only when the
\* parent has re-based the counter at its join and is suspended, and no other
\* child's report is outstanding; the child's worker then has the parent's
\* top as its active stack (pushing it, its own segment going to the free
\* list, if it was not already; never for a root), the parent is reset to
\* steals = 0 and joins = U32_MAX, and the worker resumes the parent at the
\* end of its join.
C25_LastChildResumes ==
  [][\A w \in AllWorkers :
       ReportsAsLast(w) =>
         LET p == wk[w].parent IN
         /\ LostRace(p) /\ frame[p].alive /\ Runners(p) = {}
         /\ Unreported(p) = {-(w + 1)}
         /\ wk[w].top = frame[p].top /\ wk[w].is_root = (frame[p].tag = "root")
         /\ IF frame[p].tag = "root" \/ frame[p].top = asp[w]
            THEN UNCHANGED <<asp, free>>
            ELSE /\ asp' = [asp EXCEPT ![w] = frame[p].top]
                 /\ free' = [free EXCEPT ![w] = @ \cup {asp[w]}]
         /\ frame' = [frame EXCEPT ![p].steals = 0, ![p].joins = k_u32_max]
         /\ wk'[w] = running(p, "await_resume")
         /\ UNCHANGED <<deque, inbox, nseg>>]_vars

\* C25 witness: the last child, on the worker that forked it, has resumed a
\* parent on a stack that a thief had suspended at its join: the worker was
\* already on the parent's stack.
C25_Witness ==
  \E w \in Workers :
    /\ wk[w].pc = "await_resume"
    /\ wk[w].self # NoFrame
    /\ frame[wk[w].self].tag # "root"
    /\ njoin[wk[w].self].by = "child"
    /\ asp[w] = frame[wk[w].self].top
    /\ free[w] = {}

\* The step in which worker w, at a forked child's final suspend with the
\* parent stolen, reports to the parent and is not the last to.
ReportsNotLast(w) ==
  /\ w \in Workers
  /\ wk[w].pc = "fetch_sub"
  /\ wk'[w] # wk[w]
  /\ frame[wk[w].parent].joins # 1

\* The step in which worker w swaps its active stack after such a report.
SwapsStack(w) ==
  /\ w \in Workers
  /\ wk[w].pc = "set_asp"
  /\ wk'[w] # wk[w]

\* C26: a child that is not the last to report holds, at its fetch_sub, the
\* copy of the parent's locale it made from the live parent; the fetch_sub
\* only decrements joins, and the worker resumes no frame: it returns to its
\* loop, unless the parent is on a stack and the worker's active stack is the
\* parent's top; then it swaps, by the copy alone, to a segment that is no
\* worker's active stack, and returns to its loop.  From the fetch_sub on, the
\* worker's steps do not depend on the parent frame, which may be destroyed.
C26_NotLastReleasesStack ==
  /\ [][\A w \in AllWorkers :
         ReportsNotLast(w) =>
           LET p == wk[w].parent IN
           /\ frame[p].alive
           /\ wk[w].top = frame[p].top /\ wk[w].is_root = (frame[p].tag = "root")
           /\ frame' = [frame EXCEPT ![p].joins = @ - 1]
           /\ wk'[w] = IF frame[p].tag # "root" /\ frame[p].top = asp[w]
                       THEN [wk[w] EXCEPT !.pc = "set_asp"]
                       ELSE idle_worker
           /\ UNCHANGED <<asp, free, nseg, deque, inbox>>]_vars
  /\ [][\A w \in AllWorkers :
         SwapsStack(w) =>
           /\ asp[w] = wk[w].top
           /\ \A v \in Workers : asp'[w] # asp[v]
           /\ \A v \in Workers \ {w} : asp'[v] = asp[v]
           /\ wk'[w] = idle_worker
           /\ UNCHANGED <<frame, deque, inbox>>]_vars
  /\ [](\A w \in Workers : wk[w].pc = "set_asp" => wk[w].self = NoFrame)

\* C26 witness: a child that was not the last to report is about to swap its
\* stack, and the parent, which found its join ready, has already completed
\* and been destroyed.
C26_Witness ==
  \E w \in Workers :
    /\ wk[w].pc = "set_asp"
    /\ ~frame[wk[w].parent].alive

\* The step in which worker w takes f from the top of the deque of v.
Theft(f, w, v) ==
  /\ w # v
  /\ wk[w].pc = "idle" /\ wk'[w].self = f
  /\ deque[v] # << >> /\ Head(deque[v]) = f
  /\ deque'[v] = Tail(deque[v])

\* The step in which worker w takes f from the bottom of its own deque.
Pop(f, w) ==
  /\ wk[w].pc = "task_pop" /\ wk'[w].self = f
  /\ deque[w] # << >> /\ deque[w][Len(deque[w])] = f
  /\ deque'[w] = SubSeq(deque[w], 1, Len(deque[w]) - 1)

\* C27: steals changes only in a step of the worker that owns the frame
\* after it: a thief counts one as it takes the continuation from the top of
\* a deque, and the frame is reset to 0 by the worker that resumes it at its
\* join; every theft is counted and no pop is; so that, whenever the frame's
\* join is evaluated, steals is the number of thefts of its continuation: the
\* number of its forked children that have reported or are still to report.
C27_StealsCountsThefts ==
  /\ [][\A f \in Frames :
         frame'[f].steals # frame[f].steals =>
           \E w \in Workers :
             /\ wk'[w].self = f
             /\ \/ /\ frame'[f].steals = frame[f].steals + 1
                   /\ \E v \in Workers : Theft(f, w, v)
                \/ /\ frame'[f].steals = 0
                   /\ wk'[w].pc = "await_resume"]_vars
  /\ [][\A f \in Frames : \A w \in Workers :
         /\ (\E v \in Workers : Theft(f, w, v)) => frame'[f].steals = frame[f].steals + 1
         /\ Pop(f, w) => frame'[f].steals = frame[f].steals]_vars
  /\ [](\A w \in Workers :
          (wk[w].pc = "body" /\ frame[wk[w].self].pos = "join") =>
            LET f == wk[w].self IN
            frame[f].steals = num_joined(frame[f].joins) + Cardinality(Unreported(f)))

\* C27 witness: a join is about to be evaluated on a frame whose continuation
\* was stolen twice; one of the two children has reported.
C27_Witness ==
  \E w \in Workers :
    /\ wk[w].pc = "body" /\ wk[w].self # NoFrame
    /\ frame[wk[w].self].pos = "join"
    /\ frame[wk[w].self].steals = 2
    /\ frame[wk[w].self].joins = k_u32_max - 1

\* The step in which worker w takes the task it runs through its final
\* suspend.
FinalSuspends(w) ==
  /\ w \in Workers
  /\ wk[w].pc = "final_suspend"
  /\ wk'[w] # wk[w]

\* C28: a frame is destroyed once, by the step of its own final suspend and
\* by no other, and is never alive again; it is alive whenever a worker runs
\* it, and every frame is destroyed by the time the root has completed.  The
\* step that destroys a child changes nothing else in any frame (the parent's
\* counter is decremented later) and leaves the worker with the parent the
\* child's frame named: resumed, for a called child, or held for the pop and
\* the fetch_sub that follow, for a forked one.
C28_DestroyedOnce ==
  /\ [][\A f \in Frames :
         frame'[f].alive # frame[f].alive =>
           /\ frame[f].alive /\ ~frame'[f].alive
           /\ \E w \in Workers : FinalSuspends(w) /\ wk[w].self = f]_vars
  /\ [][\A w \in AllWorkers :
         FinalSuspends(w) =>
           LET f == wk[w].self
               p == frame[f].parent IN
           /\ frame' = [frame EXCEPT ![f].alive = FALSE]
           /\ frame[f].tag = "call" => wk'[w] = running(p, "body")
           /\ frame[f].tag = "fork" =>
                wk'[w] = [idle_worker EXCEPT !.pc = "task_pop", !.parent = p]
           /\ frame[f].tag # "root" => frame[p].alive
           /\ UNCHANGED <<deque, inbox, asp, free>>]_vars
  /\ [](\A f \in Frames : Runners(f) # {} => frame[f].alive)
  /\ [](sem = 1 => \A f \in Frames : ~frame[f].alive)

\* C28 witness: a forked child has been destroyed and its worker, which
\* found its deque empty, is about to decrement the counter of the child's
\* parent, which is alive and has not yet counted a report.
C28_Witness ==
  \E w \in Workers : \E c \in Frames :
    /\ frame[c].tag = "fork" /\ ~frame[c].alive
    /\ wk[w].pc = "fetch_sub" /\ wk[w].parent = frame[c].parent
    /\ frame[wk[w].parent].alive
    /\ frame[wk[w].parent].joins = k_u32_max

\* The frame has a fork that was not joined.
ForkNotJoined(fr) ==
  \/ fr.steals # 0
  \/ fr.joins # k_u32_max
  \/ fr.debug_count # 0

\* C29: a task at its final suspend with a fork not joined goes no further:
\* the worker's one step from there ends the run in the terminated state and
\* changes nothing else, so the frame is not destroyed, the parent is not
\* resumed and the root's semaphore is not released; the run terminates for
\* no other reason, nothing runs after it, and a frame with a fork not
\* joined is never destroyed.
C29_UnjoinedForkIsFatal ==
  /\ [][\A w \in AllWorkers :
         (/\ w \in Workers /\ wk[w].pc = "final_suspend"
          /\ ForkNotJoined(frame[wk[w].self])) => wk'[w] = wk[w]]_vars
  /\ [][terminated' # terminated =>
         /\ terminated'
         /\ \E w \in Workers : /\ wk[w].pc = "final_suspend"
                               /\ ForkNotJoined(frame[wk[w].self])
         /\ UNCHANGED <<frame, wk, sem, deque, inbox, asp, free, result>>]_vars
  /\ [][~terminated]_vars
  /\ [](\A f \in Frames : ForkNotJoined(frame[f]) => frame[f].alive)
  /\ [](terminated => sem = 0)

\* C29 witness: the run has terminated at the final suspend of a task on a
\* stack whose continuation was stolen and which did not join: its frame is
\* alive and its parent is not resumed.
C29_Witness ==
  /\ terminated
  /\ \E w \in Workers :
       /\ wk[w].pc = "final_suspend"
       /\ frame[wk[w].self].tag = "fork"
       /\ frame[wk[w].self].steals # 0
       /\ frame[wk[w].self].alive
       /\ Runners(frame[wk[w].self].parent) = {}

\* The sum of the first i elements of s.
RECURSIVE prefix_sum(_, _)
prefix_sum(s, i) == IF i = 0 THEN 0 ELSE prefix_sum(s, i - 1) + s[i]

\* C30: scan_up followed by scan_down_l leaves in every place of the vector
\* the sum of the input up to and including that place; a vector of n ones,
\* for every n in 1 .. 15, becomes 1, 2, ..., n (v[i] == i + 1 counting the
\* places from 0).
C30_ScanIsPrefixSum ==
  scn.pc = "done" =>
    /\ Len(scn.v) = Len(scn.input)
    /\ \A i \in 1 .. Len(scn.v) : scn.v[i] = prefix_sum(scn.input, i)
    /\ scn.input = ones(Len(scn.input)) => \A i \in 1 .. Len(scn.v) : scn.v[i] = i

\* C30 witness: the vector of 15 ones, whose length is not a power of two,
\* has been scanned.
C30_Witness ==
  /\ scn.pc = "done"
  /\ scn.input = ones(ScanMaxN)
  /\ scn.v[ScanMaxN] = ScanMaxN

\* The step in which worker w, at a forked child's final suspend, decrements
\* the join counter of the child's parent.
ChildDecrements(w) ==
  /\ w \in Workers
  /\ wk[w].pc = "fetch_sub"
  /\ wk'[w] # wk[w]

\* C31: the children's decrements of a frame's join counter since its last
\* reset are never more than the frame's steals.  Before the parent has
\* re-based the counter it is U32_MAX less those decrements, at least U32_MAX
\* - steals, and so never 1; once re-based it is the number of children still
\* to report, from 1 to steals, so that no decrement takes it below 0; and a
\* child reads 1, and resumes the parent, only after the re-basing.
C31_DecrementsWithinSteals ==
  /\ [](\A f \in Frames :
          frame[f].alive =>
            IF LostRace(f)
            THEN /\ frame[f].joins >= 1 /\ frame[f].joins <= frame[f].steals
                 /\ frame[f].joins = Cardinality(Unreported(f))
            ELSE /\ num_joined(frame[f].joins) <= frame[f].steals
                 /\ frame[f].joins # 1)
  /\ [][\A w \in AllWorkers :
         ChildDecrements(w) =>
           LET p == wk[w].parent IN
           /\ frame[p].joins >= 1
           /\ frame[p].joins = 1 => LostRace(p)
           /\ ~LostRace(p) => /\ frame'[p].joins = frame[p].joins - 1
                              /\ num_joined(frame'[p].joins) <= frame[p].steals
                              /\ wk'[w].self = NoFrame]_vars

\* C31 witness: both children of a frame stolen twice have reported before
\* the frame, which a worker runs, has reached its join: the decrements equal
\* the steals and the counter has not been re-based.
C31_Witness ==
  \E f \in Frames :
    /\ frame[f].alive /\ Runners(f) # {}
    /\ frame[f].pos # "join" /\ njoin[f].begin = 0
    /\ frame[f].steals = 2
    /\ frame[f].joins = k_u32_max - 2

\* The step in which the task worker w runs awaits the context of w itself.
SwitchesToSelf(w) ==
  /\ w \in Workers
  /\ wk[w].pc = "body" /\ wk[w].self # NoFrame
  /\ frame[wk[w].self].pos = "switch"
  /\ frame'[wk[w].self].pos # "switch"
  /\ frame'[wk[w].self].dest = get_ctx(w)

\* C32: a task that awaits the context of the worker it runs on does not
\* suspend: nothing is submitted to an inbox or pushed to a deque, the worker
\* keeps running the task, and nothing of the frame changes but that the
\* await is behind it.
C32_SwitchToSelfIsNoOp ==
  [][\A w \in AllWorkers :
       SwitchesToSelf(w) =>
         /\ UNCHANGED <<inbox, deque, wk, asp, free>>
         /\ wk'[w] = running(wk[w].self, "body")
         /\ frame' = [frame EXCEPT ![wk[w].self].pos = "start",
                                   ![wk[w].self].dest = get_ctx(w)]]_vars

\* C32 witness: the root, submitted to worker 0, has awaited the context of
\* worker 0 and goes on there; no inbox holds anything.
C32_Witness ==
  /\ frame[RootId].dest = get_ctx(0)
  /\ frame[RootId].pos = "start"
  /\ wk[0] = running(RootId, "body")
  /\ \A w \in Workers : inbox[w] = << >>

\* The workers inside a fork's await_suspend.
Forking == {w \in Workers : wk[w].pc \in {"fork_read", "fork_pushed"}}

\* The step in which worker w leaves a fork's await_suspend.
ReturnsFromFork(w) == w \in Workers /\ wk[w].pc = "fork_pushed" /\ wk'[w] # wk[w]

\* The fork of worker w has been overtaken: a thief took the parent after
\* the push and went on with it.
Overtaken(w) ==
  /\ wk[w].pc = "fork_pushed"
  /\ ~awaitable_alive(deque[w], wk[w].self)
  /\ frame[wk[w].self].steals >= 1

\* C33: in a fork the child's handle is in the worker's own local before the
\* parent is pushed, the parent is published only by the push, and the step
\* after the push resumes that child and changes nothing else, whatever a
\* thief has done to the parent in between.
C33_ForkReadsBeforePush ==
  /\ [](\A w \in Forking :
          LET f == wk[w].self
              c == wk[w].child IN
          /\ c \in Frames /\ frame[c].alive
          /\ frame[c].parent = f /\ frame[c].tag = "fork" /\ frame[c].pos = "start"
          /\ njoin[c].forker = w
          /\ \A v \in Workers : wk[v].pc \notin {"fork_read", "fork_pushed"} => wk[v].self # c
          /\ wk[w].pc = "fork_read" => Published(f) = {} /\ Runners(f) = {w})
  /\ [][\A w \in AllWorkers :
         ReturnsFromFork(w) =>
           /\ wk'[w] = running(wk[w].child, "body")
           /\ UNCHANGED <<frame, deque, inbox, asp, free, njoin, result>>]_vars

\* C33 witness: a worker is between the push and the return of a fork, and a
\* thief has stolen the parent and run it up to its join, where it lost the
\* race and is suspended.
C33_Witness ==
  \E w \in Workers :
    /\ Overtaken(w)
    /\ frame[wk[w].self].pos = "join"
    /\ njoin[wk[w].self].by = "lost"
    /\ Runners(wk[w].self) = {w}

====
